---- MODULE Spec2Model ----
(***************************************************************************)
(* Model of plot_trend_lines.py: a batch script that reads a table of      *)
(* (timestamp, archive size) rows, cleanses the size column, sums it per   *)
(* calendar month, fits two linear trend lines with an offset between      *)
(* them, smooths the monthly series and locates the highest month before   *)
(* and after a fixed event period.                                         *)
(*                                                                         *)
(* The script is a sequence of top-level statements; each statement is one *)
(* action and pc names the statement to run next.  An uncaught exception   *)
(* ends the run (pc = "aborted").                                          *)
(*                                                                         *)
(* Numbers: a float is modelled by an exact rational [num, den] in lowest  *)
(* terms with den > 0; NaN is the record with den = 0.  Text is a sequence *)
(* of one-character strings.                                               *)
(***************************************************************************)
EXTENDS Integers, Sequences, FiniteSets, TLC

VARIABLES
    csv,                        \* the table as read from the file (line 16)
    data,                       \* the working data frame
    monthly_data,               \* the monthly frame (lines 34-38)
    slope_2008_2017, intercept_2008_2017, data_2008_2017,
    end_value_2017,
    slope_2018_2024, intercept_2018_2024, data_2018_2024,
    trend_2008_2017, trend_2018_2024,
    x_smooth,                   \* the spline's sample grid (lines 76-78)
    event_position,
    highest_point_before_2018, highest_value_before_2018,
    highest_point_after_2018, highest_value_after_2018,
    shown,                      \* plt.show() was reached (line 139)
    error,                      \* the exception that ended the run, or ""
    raw, cleaned,               \* one size text and its cleansed value
    pc

frameVars == <<csv, data, monthly_data>>
fitVars == <<slope_2008_2017, intercept_2008_2017, data_2008_2017,
             end_value_2017,
             slope_2018_2024, intercept_2018_2024, data_2018_2024,
             trend_2008_2017, trend_2018_2024>>
viewVars == <<x_smooth, event_position,
              highest_point_before_2018, highest_value_before_2018,
              highest_point_after_2018, highest_value_after_2018, shown>>
cellVars == <<raw, cleaned>>
vars == <<frameVars, fitVars, viewVars, cellVars, error, pc>>

(***************************************************************************)
(* Bounds of the model.                                                    *)
(***************************************************************************)
MaxRows == 3        \* rows of the input table
MaxLen == 5         \* characters of one size text
MaxBuckets == 4     \* monthly buckets of an enumerated series
MaxTB == 2          \* largest monthly total (TB) of an enumerated series
MaxRunRows == 4     \* rows of the input table of a whole run

(***************************************************************************)
(* Exact rational arithmetic standing for float arithmetic.                *)
(***************************************************************************)
Abs(n) == IF n < 0 THEN -n ELSE n

RECURSIVE GCD(_, _)
GCD(a, b) == IF b = 0 THEN a ELSE GCD(b, a % b)

NaN == [num |-> 0, den |-> 0]

IsNaN(r) == r.den = 0

Rat(n, d) ==
    IF d = 0 THEN NaN
    ELSE LET g == GCD(Abs(n), Abs(d))
             s == IF d < 0 THEN -1 ELSE 1
         IN  [num |-> s * (n \div g), den |-> s * (d \div g)]

RatInt(n) == [num |-> n, den |-> 1]

RatAdd(a, b) ==
    IF IsNaN(a) \/ IsNaN(b) THEN NaN
    ELSE Rat(a.num * b.den + b.num * a.den, a.den * b.den)

RatSub(a, b) ==
    IF IsNaN(a) \/ IsNaN(b) THEN NaN
    ELSE Rat(a.num * b.den - b.num * a.den, a.den * b.den)

RatMul(a, b) ==
    IF IsNaN(a) \/ IsNaN(b) THEN NaN
    ELSE Rat(a.num * b.num, a.den * b.den)

RatDiv(a, b) ==
    IF IsNaN(a) \/ IsNaN(b) THEN NaN
    ELSE Rat(a.num * b.den, a.den * b.num)

(***************************************************************************)
(* Text helpers.                                                           *)
(***************************************************************************)
Digits == {"0", "1", "2", "3", "4", "5", "6", "7", "8", "9"}

DigitVal(c) ==
    CASE c = "0" -> 0 [] c = "1" -> 1 [] c = "2" -> 2 [] c = "3" -> 3
      [] c = "4" -> 4 [] c = "5" -> 5 [] c = "6" -> 6 [] c = "7" -> 7
      [] c = "8" -> 8 [] c = "9" -> 9

RECURSIVE DecVal(_)
DecVal(s) ==
    IF Len(s) = 0 THEN 0
    ELSE 10 * DecVal(SubSeq(s, 1, Len(s) - 1)) + DigitVal(s[Len(s)])

RECURSIVE Pow10(_)
Pow10(k) == IF k = 0 THEN 1 ELSE 10 * Pow10(k - 1)

IsDigit(c) == c \in Digits

(***************************************************************************)
(* Line 22: pd.to_datetime(data['Date'], format='%Y-%m-%d').  A text       *)
(* matches when it is four digits, '-', two digits, '-', two digits and    *)
(* names a real calendar day.  One text that does not match raises.        *)
(***************************************************************************)
IsLeap(y) == (y % 4 = 0 /\ y % 100 # 0) \/ y % 400 = 0

DaysIn(y, m) ==
    IF m = 2 THEN (IF IsLeap(y) THEN 29 ELSE 28)
    ELSE IF m \in {4, 6, 9, 11} THEN 30 ELSE 31

MatchesFormat(s) ==
    /\ Len(s) = 10
    /\ s[5] = "-" /\ s[8] = "-"
    /\ \A i \in {1, 2, 3, 4, 6, 7, 9, 10} : IsDigit(s[i])
    /\ LET y == DecVal(SubSeq(s, 1, 4))
           m == DecVal(SubSeq(s, 6, 7))
           d == DecVal(SubSeq(s, 9, 10))
       IN  /\ m \in 1..12
           /\ d \in 1..DaysIn(y, m)

Strptime(s) ==
    [y |-> DecVal(SubSeq(s, 1, 4)),
     m |-> DecVal(SubSeq(s, 6, 7)),
     d |-> DecVal(SubSeq(s, 9, 10))]

to_datetime_coerce(d) ==
    LET keep(r) == MatchesFormat(r.Date)
        kept == SelectSeq(d, keep)
    IN  [raised |-> FALSE,
         frame |-> [i \in 1..Len(kept) |->
                      [kept[i] EXCEPT !.Date = Strptime(kept[i].Date)]]]

to_datetime(d) ==
    IF \E i \in 1..Len(d) : ~MatchesFormat(d[i].Date)
    THEN [raised |-> TRUE, frame |-> <<>>]
    ELSE [raised |-> FALSE,
          frame |-> [i \in 1..Len(d) |->
                       [d[i] EXCEPT !.Date = Strptime(d[i].Date)]]]

(***************************************************************************)
(* Line 25: .str.replace('.00', '', regex=False).str.replace(',', '').     *)
(* str.replace removes every non-overlapping occurrence, scanning left to  *)
(* right in one pass.                                                      *)
(***************************************************************************)
RECURSIVE RemoveDot00(_)
RemoveDot00(s) ==
    IF Len(s) < 3 THEN s
    ELSE IF SubSeq(s, 1, 3) = <<".", "0", "0">>
         THEN RemoveDot00(SubSeq(s, 4, Len(s)))
         ELSE <<Head(s)>> \o RemoveDot00(Tail(s))

RemoveCommas(s) == LET notComma(c) == c # "," IN SelectSeq(s, notComma)

StrClean(s) == RemoveCommas(RemoveDot00(s))

(***************************************************************************)
(* Line 26: pd.to_numeric(..., errors='coerce').  A text parses when it is *)
(* an optional '-', then digits with at most one '.', with at least one    *)
(* digit; anything else becomes NaN.                                       *)
(***************************************************************************)
to_numeric(s) ==
    LET neg == Len(s) > 0 /\ s[1] = "-"
        body == IF neg THEN Tail(s) ELSE s
        dots == {i \in 1..Len(body) : body[i] = "."}
        digs == SelectSeq(body, IsDigit)
        wellFormed == /\ \A i \in 1..Len(body) : IsDigit(body[i]) \/ body[i] = "."
                      /\ Cardinality(dots) <= 1
                      /\ Len(digs) >= 1
        frac == IF dots = {} THEN 0 ELSE Len(body) - (CHOOSE i \in dots : TRUE)
        mag == DecVal(digs)
    IN  IF wellFormed THEN Rat(IF neg THEN -mag ELSE mag, Pow10(frac)) ELSE NaN

CleanseCell(s) == to_numeric(StrClean(s))

(***************************************************************************)
(* Lines 29-30: dropna(subset=['ArchivedData']) and the != 0 filter.       *)
(***************************************************************************)
dropna(d) == LET notNa(r) == ~IsNaN(r.ArchivedData) IN SelectSeq(d, notNa)

NonZero_keepall(d) == d

NonZero(d) == LET nz(r) == r.ArchivedData # RatInt(0) IN SelectSeq(d, nz)

(***************************************************************************)
(* Line 33: dt.to_period('M').  A monthly period is its ordinal, the       *)
(* number of months since 1970-01.                                         *)
(***************************************************************************)
Period(y, m) == (y - 1970) * 12 + (m - 1)

to_period(d) ==
    [i \in 1..Len(d) |->
        [Date |-> d[i].Date, ArchivedData |-> d[i].ArchivedData,
         YearMonth |-> Period(d[i].Date.y, d[i].Date.m)]]

(***************************************************************************)
(* Line 34: groupby('YearMonth')['ArchivedData'].sum().reset_index().      *)
(* The rows of a group are added in row order; groups come out in          *)
(* ascending key order and reset_index labels them 0..N-1.                 *)
(***************************************************************************)
RECURSIVE GroupTotal(_, _)
GroupTotal(d, k) ==
    IF Len(d) = 0 THEN RatInt(0)
    ELSE LET rest == GroupTotal(SubSeq(d, 1, Len(d) - 1), k)
             last == d[Len(d)]
         IN  IF last.YearMonth = k THEN RatAdd(rest, last.ArchivedData) ELSE rest

RECURSIVE Ascending(_)
Ascending(S) ==
    IF S = {} THEN <<>>
    ELSE LET lo == CHOOSE k \in S : \A j \in S : k <= j
         IN  <<lo>> \o Ascending(S \ {lo})

RECURSIVE FirstSeen(_)
FirstSeen(d) ==
    IF Len(d) = 0 THEN <<>>
    ELSE LET before == FirstSeen(SubSeq(d, 1, Len(d) - 1))
             k == d[Len(d)].YearMonth
         IN  IF \E i \in 1..Len(before) : before[i] = k
             THEN before ELSE Append(before, k)

groupby_sum_unsorted(d) ==
    LET keys == FirstSeen(d)
    IN  [i \in 1..Len(keys) |->
            [idx |-> i - 1, YearMonth |-> keys[i],
             ArchivedData |-> GroupTotal(d, keys[i])]]

groupby_sum(d) ==
    LET keys == Ascending({d[i].YearMonth : i \in 1..Len(d)})
    IN  [i \in 1..Len(keys) |->
            [idx |-> i - 1, YearMonth |-> keys[i],
             ArchivedData |-> GroupTotal(d, keys[i])]]

(***************************************************************************)
(* Line 35: (ArchivedData / 1024 ** 4).round().astype(int).  round() is    *)
(* round-half-to-even.  1024 ** 4 = 2 * 2^39 is divided out in steps so    *)
(* that no intermediate value leaves the range of the model's integers.    *)
(***************************************************************************)
Kibi == 1024

FloorHalfUnits(x) ==
    ((((x.num \div x.den) \div Kibi) \div Kibi) \div Kibi) \div (Kibi \div 2)

OnHalfUnit(x) ==
    /\ x.den = 1
    /\ x.num % Kibi = 0
    /\ (x.num \div Kibi) % Kibi = 0
    /\ ((x.num \div Kibi) \div Kibi) % Kibi = 0
    /\ (((x.num \div Kibi) \div Kibi) \div Kibi) % (Kibi \div 2) = 0

RoundTB(x) ==
    LET h == FloorHalfUnits(x)
        dn == (h - 1) \div 2
        up == (h + 1) \div 2
    IN  IF h % 2 = 0 THEN h \div 2
        ELSE IF ~OnHalfUnit(x) THEN up
        ELSE IF dn % 2 = 0 THEN dn ELSE up

to_tb(md) ==
    [i \in 1..Len(md) |->
        [idx |-> md[i].idx, YearMonth |-> md[i].YearMonth,
         ArchivedData |-> md[i].ArchivedData,
         ArchivedDataTB |-> RoundTB(md[i].ArchivedData)]]

(***************************************************************************)
(* Line 38: sort_values(by='YearMonth'); rows keep their labels.           *)
(***************************************************************************)
RECURSIVE sort_values(_)
sort_values(md) ==
    IF Len(md) = 0 THEN <<>>
    ELSE LET i == CHOOSE j \in 1..Len(md) :
                    /\ \A k \in 1..Len(md) : md[j].YearMonth <= md[k].YearMonth
                    /\ \A k \in 1..(j - 1) : md[k].YearMonth # md[j].YearMonth
         IN  <<md[i]>> \o sort_values(SubSeq(md, 1, i - 1) \o SubSeq(md, i + 1, Len(md)))

(***************************************************************************)
(* The input tables of the model: every table of at most MaxRows rows      *)
(* whose timestamp and size texts are drawn from the samples below.        *)
(***************************************************************************)
DateTexts ==
    { <<"2", "0", "1", "7", "-", "0", "8", "-", "0", "1">>,
      <<"2", "0", "1", "7", "-", "0", "8", "-", "3", "1">>,
      <<"2", "0", "1", "7", "-", "0", "7", "-", "0", "1">>,
      <<"2", "0", "1", "7", "/", "0", "8", "/", "0", "1">> }

SizeTexts ==
    { <<"0", ".", "0", "0">>,
      <<"1", ",", "0", "0", "0", ".", "0", "0">>,
      <<"-", "1", ",", "0", "0", "0">>,
      <<"N", "/", "A">> }

Rows == [Date : DateTexts, ArchivedData : SizeTexts]

Tables == UNION {[1..n -> Rows] : n \in 0..MaxRows}

SizeAlphabet == {"0", "1", ".", ","}

SizeStrings == UNION {[1..n -> SizeAlphabet] : n \in 0..MaxLen}

NoSmooth == [lo |-> 0, hi |-> 0, num |-> 0]

NothingDerived ==
    /\ slope_2008_2017 = NaN /\ intercept_2008_2017 = NaN
    /\ data_2008_2017 = <<>>
    /\ end_value_2017 = NaN
    /\ slope_2018_2024 = NaN /\ intercept_2018_2024 = NaN
    /\ data_2018_2024 = <<>>
    /\ trend_2008_2017 = <<>> /\ trend_2018_2024 = <<>>
    /\ x_smooth = NoSmooth
    /\ event_position = -1
    /\ highest_point_before_2018 = -1 /\ highest_value_before_2018 = -1
    /\ highest_point_after_2018 = -1 /\ highest_value_after_2018 = -1
    /\ shown = FALSE
    /\ error = ""

(***************************************************************************)
(* The state after lines 16-19 (read_csv and the column rename).           *)
(***************************************************************************)
Init ==
    /\ csv \in Tables
    /\ data = csv
    /\ monthly_data = <<>>
    /\ NothingDerived
    /\ raw = <<>> /\ cleaned = NaN
    /\ pc = "to_datetime"

Raise(e) ==
    /\ pc' = "aborted"
    /\ error' = e

(* line 22 *)
ParseDates ==
    /\ pc = "to_datetime"
    /\ LET r == to_datetime(data)
       IN  IF r.raised
           THEN /\ Raise("ValueError")
                /\ UNCHANGED data
           ELSE /\ data' = r.frame
                /\ pc' = "str_replace"
                /\ UNCHANGED error
    /\ UNCHANGED <<csv, monthly_data, fitVars, viewVars, cellVars>>

(* line 25 *)
ReplaceText ==
    /\ pc = "str_replace"
    /\ data' = [i \in 1..Len(data) |->
                  [data[i] EXCEPT !.ArchivedData = StrClean(data[i].ArchivedData)]]
    /\ pc' = "to_numeric"
    /\ UNCHANGED <<csv, monthly_data, fitVars, viewVars, cellVars, error>>

(* line 26 *)
ToNumeric ==
    /\ pc = "to_numeric"
    /\ data' = [i \in 1..Len(data) |->
                  [data[i] EXCEPT !.ArchivedData = to_numeric(data[i].ArchivedData)]]
    /\ pc' = "dropna"
    /\ UNCHANGED <<csv, monthly_data, fitVars, viewVars, cellVars, error>>

(* line 29 *)
DropNa ==
    /\ pc = "dropna"
    /\ data' = dropna(data)
    /\ pc' = "nonzero"
    /\ UNCHANGED <<csv, monthly_data, fitVars, viewVars, cellVars, error>>

(* line 30 *)
DropZero ==
    /\ pc = "nonzero"
    /\ data' = NonZero(data)
    /\ pc' = "to_period"
    /\ UNCHANGED <<csv, monthly_data, fitVars, viewVars, cellVars, error>>

(* line 33 *)
YearMonth ==
    /\ pc = "to_period"
    /\ data' = to_period(data)
    /\ pc' = "groupby"
    /\ UNCHANGED <<csv, monthly_data, fitVars, viewVars, cellVars, error>>

(* line 34 *)
GroupBy ==
    /\ pc = "groupby"
    /\ monthly_data' = groupby_sum(data)
    /\ pc' = "to_tb"
    /\ UNCHANGED <<csv, data, fitVars, viewVars, cellVars, error>>

(* line 35 *)
ToTB ==
    /\ pc = "to_tb"
    /\ monthly_data' = to_tb(monthly_data)
    /\ pc' = "sort_values"
    /\ UNCHANGED <<csv, data, fitVars, viewVars, cellVars, error>>

(* line 38 *)
SortValues ==
    /\ pc = "sort_values"
    /\ monthly_data' = sort_values(monthly_data)
    /\ pc' = "fit_2008_2017"
    /\ UNCHANGED <<csv, data, fitVars, viewVars, cellVars, error>>

Next ==
    \/ ParseDates
    \/ ReplaceText
    \/ ToNumeric
    \/ DropNa
    \/ DropZero
    \/ YearMonth
    \/ GroupBy
    \/ ToTB
    \/ SortValues

Spec == Init /\ [][Next]_vars

(***************************************************************************)
(* The cleansing of one size text (lines 25-26) as a function of the text. *)
(***************************************************************************)
InitCell ==
    /\ csv = <<>> /\ data = <<>> /\ monthly_data = <<>>
    /\ NothingDerived
    /\ raw \in SizeStrings
    /\ cleaned = NaN
    /\ pc = "cell"

CleanCell ==
    /\ pc = "cell"
    /\ cleaned' = CleanseCell(raw)
    /\ pc' = "cell_done"
    /\ UNCHANGED <<frameVars, fitVars, viewVars, raw, error>>

NextCell == CleanCell

SpecCell == InitCell /\ [][NextCell]_vars

(***************************************************************************)
(* Lines 41-46: get_trendline_params.  The subset keeps the rows whose     *)
(* period lies in [start_period, end_period]; linregress regresses their   *)
(* TB totals on x = 0..n-1.  linregress raises on empty input; on a single *)
(* point its variance of x is zero and slope and intercept come out NaN.   *)
(***************************************************************************)
Subset(md, start_period, end_period) ==
    LET inRange(r) == r.YearMonth >= start_period /\ r.YearMonth <= end_period
    IN  SelectSeq(md, inRange)

RECURSIVE SumTo(_, _)
SumTo(f, n) == IF n = 0 THEN 0 ELSE f[n] + SumTo(f, n - 1)

linregress(y) ==
    LET n == Len(y)
        x == [i \in 1..n |-> i - 1]
        xx == [i \in 1..n |-> x[i] * x[i]]
        xy == [i \in 1..n |-> x[i] * y[i]]
        xmean == Rat(SumTo(x, n), n)
        ymean == Rat(SumTo(y, n), n)
        ssxm == RatSub(Rat(SumTo(xx, n), n), RatMul(xmean, xmean))
        ssxym == RatSub(Rat(SumTo(xy, n), n), RatMul(xmean, ymean))
        slope == RatDiv(ssxym, ssxm)
    IN  [slope |-> slope, intercept |-> RatSub(ymean, RatMul(slope, xmean))]

get_trendline_params(md, start_period, end_period) ==
    LET subset == Subset(md, start_period, end_period)
        y_vals == [i \in 1..Len(subset) |-> subset[i].ArchivedDataTB]
    IN  IF Len(subset) = 0
        THEN [raised |-> TRUE, slope |-> NaN, intercept |-> NaN, subset |-> subset]
        ELSE [raised |-> FALSE, slope |-> linregress(y_vals).slope,
              intercept |-> linregress(y_vals).intercept, subset |-> subset]

(* lines 64-65: subset.index * slope + intercept *)
TrendLine(subset, slope, intercept) ==
    [i \in 1..Len(subset) |->
        RatAdd(RatMul(RatInt(subset[i].idx), slope), intercept)]

(* the period arguments of lines 49, 56, 100, 105 and 109                  *)
Start_2008_2017 == Period(2008, 10)

End_2008_2017 == Period(2017, 10)

Start_2018_2024 == Period(2017, 6)

End_2018_2024 == Period(2024, 6)

EventPeriod == Period(2017, 8)

(* line 61: the offset between the two trend lines *)
Gap == 1500

(* line 76: the number of samples of the smooth curve *)
SmoothSamples == 300

(* line 77: the degree of the spline *)
SplineDegree == 3

(***************************************************************************)
(* Lines 105 and 109: Series.idxmax() is the label of the first row that   *)
(* holds the maximum; it raises on an empty series.                        *)
(***************************************************************************)
idxmax_last(rows) ==
    LET i == CHOOSE j \in 1..Len(rows) :
                /\ \A k \in 1..Len(rows) : rows[k].ArchivedDataTB <= rows[j].ArchivedDataTB
                /\ \A k \in (j + 1)..Len(rows) : rows[k].ArchivedDataTB < rows[j].ArchivedDataTB
    IN  rows[i].idx

idxmax(rows) ==
    LET i == CHOOSE j \in 1..Len(rows) :
                /\ \A k \in 1..Len(rows) : rows[k].ArchivedDataTB <= rows[j].ArchivedDataTB
                /\ \A k \in 1..(j - 1) : rows[k].ArchivedDataTB < rows[j].ArchivedDataTB
    IN  rows[i].idx

BeforeEvent(md) == LET b(r) == r.YearMonth < EventPeriod IN SelectSeq(md, b)

FromEvent(md) == LET a(r) == r.YearMonth >= EventPeriod IN SelectSeq(md, a)

(* monthly_data.loc[label, 'ArchivedDataTB']                               *)
Loc(md, label) == (CHOOSE r \in {md[i] : i \in 1..Len(md)} : r.idx = label).ArchivedDataTB

(***************************************************************************)
(* The monthly series of the model: every series of at most MaxBuckets     *)
(* buckets over the sample periods below, in ascending period order,       *)
(* labelled 0..N-1, with TB totals in 0..MaxTB.  These are the frames      *)
(* lines 16-38 can leave behind (the byte column, not read after line 35,  *)
(* is left out).                                                           *)
(***************************************************************************)
SeriesPeriods ==
    { Period(2008, 9), Period(2012, 1), Period(2017, 6), Period(2017, 8),
      Period(2017, 10), Period(2020, 1), Period(2024, 7) }

SeriesOver(P, tb) ==
    LET keys == Ascending(P)
    IN  [i \in 1..Len(keys) |->
            [idx |-> i - 1, YearMonth |-> keys[i], ArchivedDataTB |-> tb[keys[i]]]]

AllSeries ==
    UNION { { SeriesOver(P, tb) : tb \in [P -> 0..MaxTB] } :
            P \in {Q \in SUBSET SeriesPeriods : Cardinality(Q) <= MaxBuckets} }

InitSeries ==
    /\ csv = <<>> /\ data = <<>>
    /\ monthly_data \in AllSeries
    /\ NothingDerived
    /\ raw = <<>> /\ cleaned = NaN
    /\ pc = "fit_2008_2017"

(* line 49 *)
FitFirst ==
    /\ pc = "fit_2008_2017"
    /\ LET r == get_trendline_params(monthly_data, Start_2008_2017, End_2008_2017)
       IN  IF r.raised
           THEN /\ Raise("ValueError")
                /\ UNCHANGED fitVars
           ELSE /\ slope_2008_2017' = r.slope
                /\ intercept_2008_2017' = r.intercept
                /\ data_2008_2017' = r.subset
                /\ pc' = "end_value_2017"
                /\ UNCHANGED <<end_value_2017, slope_2018_2024, intercept_2018_2024,
                               data_2018_2024, trend_2008_2017, trend_2018_2024, error>>
    /\ UNCHANGED <<frameVars, viewVars, cellVars>>

(* lines 52-53 *)
EndValue ==
    /\ pc = "end_value_2017"
    /\ LET end_index_2017 == Len(data_2008_2017) - 1
       IN  end_value_2017' =
               RatAdd(RatMul(RatInt(end_index_2017), slope_2008_2017), intercept_2008_2017)
    /\ pc' = "fit_2018_2024"
    /\ UNCHANGED <<slope_2008_2017, intercept_2008_2017, data_2008_2017,
                   slope_2018_2024, intercept_2018_2024, data_2018_2024,
                   trend_2008_2017, trend_2018_2024>>
    /\ UNCHANGED <<frameVars, viewVars, cellVars, error>>

(* line 56 *)
FitSecond ==
    /\ pc = "fit_2018_2024"
    /\ LET r == get_trendline_params(monthly_data, Start_2018_2024, End_2018_2024)
       IN  IF r.raised
           THEN /\ Raise("ValueError")
                /\ UNCHANGED fitVars
           ELSE /\ slope_2018_2024' = r.slope
                /\ intercept_2018_2024' = r.intercept
                /\ data_2018_2024' = r.subset
                /\ pc' = "adjust"
                /\ UNCHANGED <<slope_2008_2017, intercept_2008_2017, data_2008_2017,
                               end_value_2017, trend_2008_2017, trend_2018_2024, error>>
    /\ UNCHANGED <<frameVars, viewVars, cellVars>>

(* lines 59-61 *)
AdjustIntercept ==
    /\ pc = "adjust"
    /\ LET start_index_2018 == 0
           start_value_2018 ==
               RatAdd(RatMul(RatInt(start_index_2018), slope_2018_2024), intercept_2018_2024)
       IN  intercept_2018_2024' =
               RatAdd(intercept_2018_2024,
                      RatSub(RatSub(end_value_2017, start_value_2018), RatInt(Gap)))
    /\ pc' = "trend"
    /\ UNCHANGED <<slope_2008_2017, intercept_2008_2017, data_2008_2017,
                   end_value_2017, slope_2018_2024, data_2018_2024,
                   trend_2008_2017, trend_2018_2024>>
    /\ UNCHANGED <<frameVars, viewVars, cellVars, error>>

(* lines 64-65 *)
TrendLines ==
    /\ pc = "trend"
    /\ trend_2008_2017' = TrendLine(data_2008_2017, slope_2008_2017, intercept_2008_2017)
    /\ trend_2018_2024' = TrendLine(data_2018_2024, slope_2018_2024, intercept_2018_2024)
    /\ pc' = "spline"
    /\ UNCHANGED <<slope_2008_2017, intercept_2008_2017, data_2008_2017,
                   end_value_2017, slope_2018_2024, intercept_2018_2024, data_2018_2024>>
    /\ UNCHANGED <<frameVars, viewVars, cellVars, error>>

(* line 77: make_interp_spline(x, y, k=3) raises on fewer than k + 1 points *)
SplineRaises_offbyone(n) == n < SplineDegree

SplineRaises(n) == n < SplineDegree + 1

(* lines 74-78 *)
Smooth ==
    /\ pc = "spline"
    /\ IF SplineRaises(Len(monthly_data))
       THEN /\ Raise("ValueError")
            /\ UNCHANGED x_smooth
       ELSE /\ x_smooth' = [lo |-> 0, hi |-> Len(monthly_data) - 1, num |-> SmoothSamples]
            /\ pc' = "event"
            /\ UNCHANGED error
    /\ UNCHANGED <<event_position,
                   highest_point_before_2018, highest_value_before_2018,
                   highest_point_after_2018, highest_value_after_2018, shown>>
    /\ UNCHANGED <<frameVars, fitVars, cellVars>>

(* line 100: index[...][0] raises when no bucket has the event period *)
EventPosition ==
    /\ pc = "event"
    /\ LET at == {i \in 1..Len(monthly_data) : monthly_data[i].YearMonth = EventPeriod}
       IN  IF at = {}
           THEN /\ Raise("IndexError")
                /\ UNCHANGED event_position
           ELSE /\ event_position' = monthly_data[CHOOSE i \in at : TRUE].idx
                /\ pc' = "highest_before"
                /\ UNCHANGED error
    /\ UNCHANGED <<x_smooth,
                   highest_point_before_2018, highest_value_before_2018,
                   highest_point_after_2018, highest_value_after_2018, shown>>
    /\ UNCHANGED <<frameVars, fitVars, cellVars>>

(* lines 105-106 *)
HighestBefore ==
    /\ pc = "highest_before"
    /\ IF Len(BeforeEvent(monthly_data)) = 0
       THEN /\ Raise("ValueError")
            /\ UNCHANGED <<highest_point_before_2018, highest_value_before_2018>>
       ELSE /\ highest_point_before_2018' = idxmax(BeforeEvent(monthly_data))
            /\ highest_value_before_2018' =
                   Loc(monthly_data, idxmax(BeforeEvent(monthly_data)))
            /\ pc' = "highest_after"
            /\ UNCHANGED error
    /\ UNCHANGED <<x_smooth, event_position,
                   highest_point_after_2018, highest_value_after_2018, shown>>
    /\ UNCHANGED <<frameVars, fitVars, cellVars>>

(* lines 109-110 *)
HighestAfter ==
    /\ pc = "highest_after"
    /\ IF Len(FromEvent(monthly_data)) = 0
       THEN /\ Raise("ValueError")
            /\ UNCHANGED <<highest_point_after_2018, highest_value_after_2018>>
       ELSE /\ highest_point_after_2018' = idxmax(FromEvent(monthly_data))
            /\ highest_value_after_2018' =
                   Loc(monthly_data, idxmax(FromEvent(monthly_data)))
            /\ pc' = "show"
            /\ UNCHANGED error
    /\ UNCHANGED <<x_smooth, event_position,
                   highest_point_before_2018, highest_value_before_2018, shown>>
    /\ UNCHANGED <<frameVars, fitVars, cellVars>>

(* lines 81-86, 113-118, 138-139: the views are drawn and the figure shown *)
Show ==
    /\ pc = "show"
    /\ shown' = TRUE
    /\ pc' = "done"
    /\ UNCHANGED <<x_smooth, event_position,
                   highest_point_before_2018, highest_value_before_2018,
                   highest_point_after_2018, highest_value_after_2018>>
    /\ UNCHANGED <<frameVars, fitVars, cellVars, error>>

NextSeries ==
    \/ FitFirst
    \/ EndValue
    \/ FitSecond
    \/ AdjustIntercept
    \/ TrendLines
    \/ Smooth
    \/ EventPosition
    \/ HighestBefore
    \/ HighestAfter
    \/ Show

SpecSeries == InitSeries /\ [][NextSeries]_vars

(***************************************************************************)
(* The whole script, lines 16-139, on tables of at most MaxRunRows rows    *)
(* over a smaller sample of texts.                                         *)
(***************************************************************************)
RunDateTexts ==
    { <<"2", "0", "1", "2", "-", "0", "1", "-", "1", "5">>,
      <<"2", "0", "1", "7", "-", "0", "6", "-", "3", "0">>,
      <<"2", "0", "1", "7", "-", "0", "8", "-", "0", "1">>,
      <<"2", "0", "1", "7", "-", "1", "0", "-", "3", "1">>,
      <<"2", "0", "1", "7", "-", "1", "3", "-", "0", "1">> }

RunSizeTexts ==
    { <<"0", ".", "0", "0">>,
      <<"2", ",", "0", "4", "8", ".", "0", "0">> }

RunTables ==
    UNION {[1..n -> [Date : RunDateTexts, ArchivedData : RunSizeTexts]] : n \in 0..MaxRunRows}

InitRun ==
    /\ csv \in RunTables
    /\ data = csv
    /\ monthly_data = <<>>
    /\ NothingDerived
    /\ raw = <<>> /\ cleaned = NaN
    /\ pc = "to_datetime"

NextRun == Next \/ NextSeries

SpecRun == InitRun /\ [][NextRun]_vars

(* ------------------------------ PROPERTIES ------------------------------ *)

(***************************************************************************)
(* Reference notions over the input table, used to state the properties.   *)
(***************************************************************************)
InputHasBadDate == \E i \in 1..Len(csv) : ~MatchesFormat(csv[i].Date)

SizeOf(i) == CleanseCell(csv[i].ArchivedData)

Survives(i) == ~IsNaN(SizeOf(i)) /\ SizeOf(i).num # 0

MonthOf(i) == Period(Strptime(csv[i].Date).y, Strptime(csv[i].Date).m)

SurvivorsOf(m) == {i \in 1..Len(csv) : Survives(i) /\ MonthOf(i) = m}

RECURSIVE SumOver(_)
SumOver(S) ==
    IF S = {} THEN RatInt(0)
    ELSE LET i == CHOOSE j \in S : TRUE
         IN  RatAdd(SizeOf(i), SumOver(S \ {i}))

BucketsOf(m) == {b \in 1..Len(monthly_data) : monthly_data[b].YearMonth = m}

Aggregated == pc \in {"to_tb", "sort_values", "fit_2008_2017"}

Permute(t, p) == [i \in 1..Len(t) |-> t[p[i]]]

Pipeline(t) ==
    LET parsed == to_datetime(t).frame
        text == [i \in 1..Len(parsed) |->
                   [parsed[i] EXCEPT !.ArchivedData = StrClean(parsed[i].ArchivedData)]]
        nums == [i \in 1..Len(text) |->
                   [text[i] EXCEPT !.ArchivedData = to_numeric(text[i].ArchivedData)]]
    IN  sort_values(to_tb(groupby_sum(to_period(NonZero(dropna(nums))))))

SuffixReference(s) ==
    LET stripped == IF Len(s) >= 3 /\ SubSeq(s, Len(s) - 2, Len(s)) = <<".", "0", "0">>
                    THEN SubSeq(s, 1, Len(s) - 3)
                    ELSE s
    IN  to_numeric(RemoveCommas(stripped))

(***************************************************************************)
(* C4 - Zero/invalid filtering: once the monthly frame is built, a month   *)
(* has a bucket exactly when some row of that month has a size that parses *)
(* and is non-zero; it then has one bucket, whose total is the sum of the  *)
(* sizes of exactly those rows.  Rows whose size is zero or unparsable     *)
(* contribute to no bucket.                                                *)
(***************************************************************************)
C4_ZeroInvalidFiltering ==
    Aggregated =>
        /\ \A i \in 1..Len(csv) :
              LET S == SurvivorsOf(MonthOf(i))
              IN  IF S = {}
                  THEN BucketsOf(MonthOf(i)) = {}
                  ELSE /\ Cardinality(BucketsOf(MonthOf(i))) = 1
                       /\ \A b \in BucketsOf(MonthOf(i)) :
                             monthly_data[b].ArchivedData = SumOver(S)
        /\ \A b \in 1..Len(monthly_data) :
              SurvivorsOf(monthly_data[b].YearMonth) # {}

C4_Witness ==
    /\ pc = "fit_2008_2017"
    /\ Len(monthly_data) = 1
    /\ \E i, j, k \in 1..Len(csv) :
          /\ MonthOf(i) = MonthOf(j) /\ MonthOf(k) # MonthOf(i)
          /\ Survives(i)
          /\ ~IsNaN(SizeOf(j)) /\ SizeOf(j).num = 0
          /\ IsNaN(SizeOf(k))

(***************************************************************************)
(* C5 - Determinism under permutation: the monthly frame built from the    *)
(* table equals the monthly frame the pipeline builds from every           *)
(* permutation of the table's rows: same periods in the same order, same   *)
(* ordinal labels, same totals.                                            *)
(***************************************************************************)
C5_PermutationInvariant ==
    pc = "fit_2008_2017" =>
        \A p \in Permutations(1..Len(csv)) :
            Pipeline(Permute(csv, p)) = monthly_data

C5_Witness ==
    /\ pc = "fit_2008_2017"
    /\ Len(monthly_data) = 2
    /\ \E i, j \in 1..Len(csv) :
          i < j /\ Survives(i) /\ Survives(j) /\ MonthOf(i) > MonthOf(j)
    /\ \E i, j \in 1..Len(csv) :
          i # j /\ Survives(i) /\ Survives(j) /\ MonthOf(i) = MonthOf(j)
             /\ SizeOf(i) # SizeOf(j)

C9_SuffixOnly ==
    pc = "cell_done" => cleaned = SuffixReference(raw)

(***************************************************************************)
(* C10 - Non-zero buckets: every record that survives                      *)
(* cleansing has a non-negative size and every monthly bucket has a byte   *)
(* total different from zero.                                              *)
(***************************************************************************)
C10_NoZeroBucket ==
    /\ pc \in {"to_period", "groupby"} =>
          \A i \in 1..Len(data) : data[i].ArchivedData.num >= 0
    /\ Aggregated =>
          \A b \in 1..Len(monthly_data) : monthly_data[b].ArchivedData.num # 0

(***************************************************************************)
(* Reference notions over the monthly series.                              *)
(***************************************************************************)
Points_2008_2017 == Len(Subset(monthly_data, Start_2008_2017, End_2008_2017))

Points_2018_2024 == Len(Subset(monthly_data, Start_2018_2024, End_2018_2024))

TrendsComputed == Len(trend_2008_2017) > 0 /\ Len(trend_2018_2024) > 0

LocalLine(slope, intercept, k) ==
    [i \in 1..k |-> RatAdd(RatMul(RatInt(i - 1), slope), intercept)]

BeforeOrdinals == {o \in 0..(Len(monthly_data) - 1) : monthly_data[o + 1].YearMonth < EventPeriod}

AfterOrdinals == {o \in 0..(Len(monthly_data) - 1) : monthly_data[o + 1].YearMonth >= EventPeriod}

TotalAt(o) == monthly_data[o + 1].ArchivedDataTB

IsFirstMaxOf(o, O) ==
    /\ o \in O
    /\ \A q \in O : TotalAt(q) <= TotalAt(o)
    /\ \A q \in O : q < o => TotalAt(q) < TotalAt(o)

Ended == pc \in {"done", "aborted"}

InsufficientDataFailure == pc = "aborted" /\ error = "ValueError"

TrendDelivered == shown /\ TrendsComputed

SmoothDelivered == shown /\ x_smooth # NoSmooth

ExtremaDelivered ==
    shown /\ highest_point_before_2018 # -1 /\ highest_point_after_2018 # -1

(***************************************************************************)
(* C1 - Continuity adjustment: when both segments select at                *)
(* least 2 buckets, the first value of the second trend line equals the    *)
(* first segment's fitted value at its last local ordinal minus the gap.   *)
(***************************************************************************)
C1_ContinuityAdjustment ==
    (TrendsComputed /\ Len(data_2008_2017) >= 2 /\ Len(data_2018_2024) >= 2) =>
        trend_2018_2024[1] = RatSub(end_value_2017, RatInt(Gap))

(***************************************************************************)
(* C2 - Local ordinals: for each segment of at least 2                     *)
(* buckets, the i-th value of its trend line is slope * i + intercept with *)
(* i the 0-based position inside the segment.                              *)
(***************************************************************************)
C2_FittedAtLocalOrdinal ==
    (TrendsComputed /\ Len(data_2008_2017) >= 2 /\ Len(data_2018_2024) >= 2) =>
        /\ trend_2008_2017 =
              LocalLine(slope_2008_2017, intercept_2008_2017, Len(data_2008_2017))
        /\ trend_2018_2024 =
              LocalLine(slope_2018_2024, intercept_2018_2024, Len(data_2018_2024))

(***************************************************************************)
(* C3 - Failure confinement: when the run has ended on an                  *)
(* insufficient-data failure, every view whose own input is sufficient has *)
(* still been computed and delivered.                                      *)
(***************************************************************************)
C3_FailureConfined ==
    (Ended /\ InsufficientDataFailure) =>
        /\ (Points_2008_2017 >= 2 /\ Points_2018_2024 >= 2) => TrendDelivered
        /\ Len(monthly_data) >= SplineDegree + 1 => SmoothDelivered
        /\ (BeforeOrdinals # {} /\ AfterOrdinals # {}) => ExtremaDelivered

(***************************************************************************)
(* C3 (amended) - Failure ends the run: an insufficient-data failure of    *)
(* the trend fit, the spline or the extremum search aborts the whole run.  *)
(* The figure is never shown, the views that come later in the script are  *)
(* never computed, and a figure is shown only when every view had enough   *)
(* data not to raise.                                                      *)
(***************************************************************************)
C3_FailureEndsRun ==
    /\ InsufficientDataFailure =>
          /\ ~shown
          /\ ~TrendsComputed => x_smooth = NoSmooth
          /\ x_smooth = NoSmooth => highest_point_before_2018 = -1
          /\ highest_point_before_2018 = -1 => highest_point_after_2018 = -1
    /\ shown =>
          /\ Points_2008_2017 >= 1 /\ Points_2018_2024 >= 1
          /\ Len(monthly_data) >= SplineDegree + 1
          /\ BeforeOrdinals # {} /\ AfterOrdinals # {}
          /\ TrendsComputed /\ x_smooth # NoSmooth
          /\ highest_point_before_2018 # -1 /\ highest_point_after_2018 # -1

C3_Witness ==
    /\ InsufficientDataFailure
    /\ Points_2008_2017 >= 2 /\ Points_2018_2024 >= 2
    /\ BeforeOrdinals # {} /\ AfterOrdinals # {}
    /\ TrendsComputed
    /\ x_smooth = NoSmooth
    /\ ~shown

(***************************************************************************)
(* C6 - Extremum correctness: once computed, the point before the event is *)
(* the global ordinal of the first bucket holding the maximum TB total     *)
(* among the buckets strictly before the event period, the point after is  *)
(* the same among the buckets on or after it, and each reported value is   *)
(* the total of that bucket.                                               *)
(***************************************************************************)
C6_ExtremumCorrect ==
    /\ pc \in {"highest_after", "show", "done"} =>
          /\ IsFirstMaxOf(highest_point_before_2018, BeforeOrdinals)
          /\ highest_value_before_2018 = TotalAt(highest_point_before_2018)
    /\ pc \in {"show", "done"} =>
          /\ IsFirstMaxOf(highest_point_after_2018, AfterOrdinals)
          /\ highest_value_after_2018 = TotalAt(highest_point_after_2018)

C6_Witness ==
    /\ pc = "done"
    /\ \E o \in BeforeOrdinals :
          o > highest_point_before_2018 /\ TotalAt(o) = highest_value_before_2018
    /\ \E o \in AfterOrdinals :
          o > highest_point_after_2018 /\ TotalAt(o) = highest_value_after_2018
    /\ highest_value_after_2018 < highest_value_before_2018

(***************************************************************************)
(* C7 - Insufficient-data signalling: a trend fit over a                   *)
(* range that selects 0 or 1 buckets ends the run in an error; the run     *)
(* never goes on with a slope and intercept from such a fit.               *)
(***************************************************************************)
C7_SmallFitRaises ==
    /\ (pc # "fit_2008_2017" /\ Points_2008_2017 <= 1) =>
          /\ InsufficientDataFailure
          /\ data_2008_2017 = <<>>
    /\ (pc \notin {"fit_2008_2017", "end_value_2017", "fit_2018_2024"}
          /\ data_2008_2017 # <<>> /\ Points_2018_2024 <= 1) =>
          /\ InsufficientDataFailure
          /\ data_2018_2024 = <<>>

====
